---- MODULE Spec2Model ----
(***************************************************************************)
(* Gizmo: typed fields (gizmo/field.py), the _Fields collection that holds *)
(* them and the entity that owns one collection (gizmo/entity.py).         *)
(*                                                                         *)
(* SpecField drives one standalone Field of any type through assignments   *)
(* and deletions.  Spec drives one entity and its _Fields collection       *)
(* through item access, representation switches, installs, the views and   *)
(* the expander protocol.                                                  *)
(***************************************************************************)
EXTENDS Integers, Sequences, FiniteSets, TLC

VARIABLES
    field,      \* SpecField: the standalone Field object
    ret,        \* SpecField: what the last operation on `field` was and returned
    fields,     \* Spec: the _Fields dict, name -> Field object
    coll,       \* Spec: the _Fields attributes data_type and _data_expanders
    ent,        \* Spec: the entity attributes data_type, allow_undefined, _immutable
    out,        \* Spec: what the last entity / collection operation was and returned
    hist        \* history: the objects created and calls made so far

vars == <<field, ret, fields, coll, ent, out, hist>>

(***************************************************************************)
(* Bounds of the model.                                                    *)
(***************************************************************************)
\* set_max is drawn from None and 0..MaxSetMax
MaxSetMax == 1
\* a field takes assignments while its set_count is below this
MaxSetCount == 4
\* at most this many add_expander calls after the collection's own
MaxAddCalls == 3
\* at most this many Field objects are created after the entity's construction
MaxNewFields == 1
\* at most this many item assignments reach an installed field
MaxItemSets == 1

(***************************************************************************)
(* Python values.  k is the type, s the text of a str, n the number of an  *)
(* int or bool and the size of a dict or list.                             *)
(***************************************************************************)
None == [k |-> "none", s |-> "", n |-> 0]
PyStr(x) == [k |-> "str", s |-> x, n |-> 0]
PyInt(i) == [k |-> "int", s |-> "", n |-> i]
PyBool(b) == [k |-> "bool", s |-> "", n |-> IF b THEN 1 ELSE 0]
PyDict(size) == [k |-> "dict", s |-> "", n |-> size]
PyList(size) == [k |-> "list", s |-> "", n |-> size]
\* a zero-argument callable: utils.current_date_time
Callable == [k |-> "function", s |-> "current_date_time", n |-> 0]
\* an exception leaving the read
Raise == [k |-> "raise", s |-> "", n |-> 0]

\* the times current_date_time may return (milliseconds)
ClockValues == {PyInt(1000), PyInt(2000)}

\* a == b in Python: bool is an int, everything else compares within its type
PyEq(a, b) ==
    IF a.k \in {"int", "bool"} /\ b.k \in {"int", "bool"}
    THEN a.n = b.n
    ELSE a = b

\* bool(v)
Truthy(v) ==
    CASE v.k = "none" -> FALSE
      [] v.k = "str" -> v.s # ""
      [] v.k \in {"int", "bool", "dict", "list"} -> v.n # 0
      [] OTHER -> TRUE

\* the number a numeric text denotes
NumOfText(s) ==
    CASE s = "0" -> 0
      [] s = "5" -> 5
      [] s = "1000" -> 1000
      [] OTHER -> 0

\* int(float(v)) for an int, a bool or a numeric text
IntOfFloat(v) == IF v.k = "str" THEN NumOfText(v.s) ELSE v.n

\* v in seq, for a Python list seq
PyIn(v, seq) == \E i \in 1..Len(seq) : PyEq(seq[i], v)

(***************************************************************************)
(* Field and its subclasses: default_value, to_python, to_graph.           *)
(***************************************************************************)
Types == {"String", "Integer", "Increment", "Float", "Boolean", "Map", "List",
          "DateTime", "Enum"}
DataTypes == {"python", "graph"}

Field_default_value == None
Map_default_value == PyDict(0)
List_default_value == PyList(0)
DateTime_default_value == Callable

default_value(type) ==
    CASE type = "Map" -> Map_default_value
      [] type = "List" -> List_default_value
      [] type = "DateTime" -> DateTime_default_value
      [] OTHER -> Field_default_value

Field_to_python(fv) == fv
Field_to_graph(fv) == IF fv = None THEN PyStr("") ELSE fv

Integer_to_python(fv) == IF Truthy(fv) THEN PyInt(IntOfFloat(fv)) ELSE PyInt(0)
Integer_to_graph(fv) == Integer_to_python(fv)

Increment_to_graph(fv) == PyInt((IF Truthy(fv) THEN IntOfFloat(fv) ELSE 0) + 1)

\* Float defines to_ptyhon, which nothing calls
Float_to_ptyhon(fv) == IF Truthy(fv) THEN PyInt(IntOfFloat(fv)) ELSE PyInt(0)

\* json.loads(str(fv).lower().strip()), then bool(); any failure is False
Boolean_to_python(fv) ==
    CASE fv.k = "bool" -> PyBool(fv.n = 1)
      [] fv.k = "int" -> PyBool(fv.n # 0)
      [] fv.k = "str" /\ fv.s = "true" -> PyBool(TRUE)
      [] fv.k = "str" /\ fv.s \in {"0", "5", "1000"} -> PyBool(NumOfText(fv.s) # 0)
      [] OTHER -> PyBool(FALSE)
Boolean_to_graph(fv) == IF Truthy(fv) THEN PyStr("true") ELSE PyStr("false")

\* json.load of a str raises: a str has no read()
Map_to_python(fv) == IF fv.k = "str" /\ fv.s # "" THEN Raise ELSE fv

DateTime_to_graph(fv) ==
    IF fv = None \/ PyEq(fv, PyStr("")) THEN PyStr("") ELSE PyInt(IntOfFloat(fv))
DateTime_to_python(fv) ==
    PyInt(IntOfFloat(IF fv = None \/ PyEq(fv, PyStr("")) THEN PyInt(0) ELSE fv) \div 1000)

to_python(f) ==
    CASE f.type \in {"Integer", "Increment"} -> Integer_to_python(f.field_value)
      [] f.type = "Boolean" -> Boolean_to_python(f.field_value)
      [] f.type \in {"Map", "List"} -> Map_to_python(f.field_value)
      [] f.type = "DateTime" -> DateTime_to_python(f.field_value)
      [] OTHER -> Field_to_python(f.field_value)

to_graph(f) ==
    CASE f.type = "Integer" -> Integer_to_graph(f.field_value)
      [] f.type = "Increment" -> Increment_to_graph(f.field_value)
      [] f.type = "Boolean" -> Boolean_to_graph(f.field_value)
      [] f.type = "DateTime" -> DateTime_to_graph(f.field_value)
      [] OTHER -> Field_to_graph(f.field_value)

\* the value property's getter
get_value(f) == IF f.data_type = "python" THEN to_python(f) ELSE to_graph(f)

\* Field.changed
ChangedSticky(f) == Len(f.changes) > 1
changed(f) == ~PyEq(f.initial_value, get_value(f))

\* what _can_set returns; it also counts the attempt (see set_value)
CanSetOffByOne(f) ==
    IF f.set_max # None THEN f.set_count <= f.set_max.n + 1 ELSE TRUE
can_set(f) ==
    IF f.set_max # None THEN f.set_count <= f.set_max.n ELSE TRUE

\* Field._set_value; t is what the callable returns if value is one
Field_set_value(f, value, t) ==
    LET v == IF value.k = "function" THEN t ELSE value
        counted == [f EXCEPT !.set_count = @ + 1]
    IN  IF can_set(f)
        THEN [counted EXCEPT
                !.changes = IF ~PyEq(v, f.field_value) THEN Append(@, v) ELSE @,
                !.field_value = v]
        ELSE counted

\* Enum._set_value: the override the value property never reaches
Enum_set_value(f, value, t) ==
    LET counted == [f EXCEPT !.set_count = @ + 1]
    IN  IF can_set(f) /\ PyIn(value, f.allowed)
        THEN [counted EXCEPT !.field_value = value]
        ELSE counted

\* whether an assignment stores its value: the condition of the setter's if
accepts(f, value) == can_set(f)

\* the value property's setter: property(_get_value, _set_value, _del_value)
\* binds Field._set_value itself, for every subclass
set_value(f, value, t) == Field_set_value(f, value, t)

\* the value property's deleter
del_value(f) == [f EXCEPT !.field_value = None]

\* Field.__init__ ; oid names the object
Field_init(type, oid, value, data_type, set_max, track_changes, allowed, t) ==
    LET v == IF ~Truthy(value) THEN default_value(type) ELSE value
        f == [type |-> type, oid |-> oid, allowed |-> allowed,
              changes |-> <<v>>, initial_value |-> v, set_count |-> 0,
              field_value |-> v, data_type |-> data_type, set_max |-> set_max,
              track_changes |-> track_changes]
    IN  set_value(f, v, t)

\* Enum.__init__ (allowed is never empty here)
Enum_init(oid, allowed, value, data_type, set_max, track_changes, t) ==
    LET v == IF value = None THEN allowed[1] ELSE value
    IN  Field_init("Enum", oid, v, data_type, set_max, track_changes, allowed, t)

(***************************************************************************)
(* SpecField: one standalone Field.                                        *)
(***************************************************************************)
\* the values handed to a field of each type: those both conversions accept
Inputs(type) ==
    CASE type = "String" -> {None, PyStr(""), PyStr("abc"), Callable}
      [] type \in {"Integer", "Increment"} -> {None, PyInt(0), PyInt(5), PyStr("5")}
      [] type = "Float" -> {None, PyInt(0), PyInt(5)}
      [] type = "Boolean" -> {None, PyStr("true"), PyStr("false"), PyBool(TRUE), PyInt(0)}
      [] type = "Map" -> {None, PyDict(0), PyDict(1), PyStr("")}
      [] type = "List" -> {None, PyList(0), PyList(1)}
      [] type = "DateTime" -> {None, PyStr(""), PyInt(1000), Callable}
      [] type = "Enum" -> {None, PyStr("a"), PyStr("b"), PyStr("abc"), PyInt(1), PyBool(TRUE)}
      [] OTHER -> {None}

\* the allowed lists an Enum is built with
AllowedLists == {<<PyStr("a"), PyStr("b")>>, <<PyInt(0), PyInt(1)>>}

SetMaxes == {None} \cup {PyInt(i) : i \in 0..MaxSetMax}

\* the collection and the entity are not built in SpecField, nor the
\* standalone field in Spec
NoFields == [name \in {} |-> None]
NoColl == [data_type |-> "python", expanders |-> <<>>]
\* the producer argument where the value is no callable
NoCall == None
NoEnt == [data_type |-> "python", allow_undefined |-> FALSE, immutable |-> {}]
NoHist == [news |-> 0, sets |-> 0, rep_set |-> FALSE, added |-> <<>>]
NoOut == [op |-> "none"]
NoField == [type |-> "none"]
NoRet == [op |-> "none"]

\* Field(value, data_type, set_max, track_changes) and Enum(allowed, value, ...)
InitField ==
    /\ \E type \in Types, dt \in DataTypes, sm \in SetMaxes, tc \in BOOLEAN,
          t \in ClockValues :
         \E value \in Inputs(type),
            allowed \in IF type = "Enum" THEN AllowedLists ELSE {<<>>} :
            /\ field = IF type = "Enum"
                       THEN Enum_init(0, allowed, value, dt, sm, tc, t)
                       ELSE Field_init(type, 0, value, dt, sm, tc, allowed, t)
            /\ ret = [op |-> "init", arg |-> value, before |-> None,
                      after |-> get_value(field), nth |-> 0,
                      accepted |-> TRUE, by_set |-> FALSE, was |-> FALSE]
    /\ fields = NoFields
    /\ coll = NoColl
    /\ ent = NoEnt
    /\ out = NoOut
    /\ hist = NoHist

\* field.value = value, the nth assignment after construction
Assign(value, t) ==
    /\ field.set_count < MaxSetCount
    /\ field' = set_value(field, value, t)
    /\ ret' = [op |-> "set", arg |-> value, before |-> get_value(field),
               after |-> get_value(field'), nth |-> ret.nth + 1,
               accepted |-> accepts(field, value),
               by_set |-> changed(field')
                          /\ (IF changed(field) THEN ret.by_set ELSE TRUE),
               was |-> ret.by_set]
    /\ UNCHANGED <<fields, coll, ent, out, hist>>

\* del field.value
Delete ==
    /\ field' = del_value(field)
    /\ ret' = [op |-> "del", arg |-> None, before |-> get_value(field),
               after |-> get_value(field'), nth |-> ret.nth,
               accepted |-> TRUE,
               by_set |-> changed(field') /\ changed(field) /\ ret.by_set,
               was |-> ret.by_set]
    /\ UNCHANGED <<fields, coll, ent, out, hist>>

NextField ==
    \/ \E value \in Inputs(field.type), t \in ClockValues : Assign(value, t)
    \/ Delete

SpecField == InitField /\ [][NextField]_vars

(***************************************************************************)
(* _Fields: the views over a dict fs of fields, for the collection's       *)
(* data_type dt.  Each returns the fields as the call leaves them too: a   *)
(* view assigns dt to the data_type of the fields it reads.                *)
(***************************************************************************)
Synced(f, dt) == [f EXCEPT !.data_type = dt]

\* _Fields._get_data(data): empty is the dict {}
Fields_get_data(fs, dt, data) ==
    [fields |-> [n \in DOMAIN fs |-> Synced(fs[n], dt)],
     data |-> [n \in DOMAIN data \cup DOMAIN fs |->
                  IF n \in DOMAIN fs THEN get_value(Synced(fs[n], dt)) ELSE data[n]]]

\* _Fields.changed
Fields_changed(fs, dt) ==
    LET names == {n \in DOMAIN fs : fs[n].track_changes /\ changed(fs[n])}
    IN  [fields |-> [n \in DOMAIN fs |->
                        IF n \in names THEN Synced(fs[n], dt) ELSE fs[n]],
         data |-> [n \in names |-> get_value(Synced(fs[n], dt))]]

\* _Fields.unchanged
Fields_unchanged(fs, dt) ==
    LET names == {n \in DOMAIN fs : fs[n].track_changes /\ ~changed(fs[n])}
    IN  [fields |-> [n \in DOMAIN fs |->
                        IF n \in names THEN Synced(fs[n], dt) ELSE fs[n]],
         data |-> [n \in names |-> get_value(Synced(fs[n], dt))]]

\* _Fields.removed: changed is read, then unchanged
RemovedSwapped(fs, dt) ==
    LET c == Fields_changed(fs, dt)
        u == Fields_unchanged(c.fields, dt)
    IN  [fields |-> u.fields, changed |-> DOMAIN c.data,
         unchanged |-> DOMAIN u.data,
         removed |-> DOMAIN u.data \ DOMAIN c.data]
Fields_removed(fs, dt) ==
    LET c == Fields_changed(fs, dt)
        u == Fields_unchanged(c.fields, dt)
    IN  [fields |-> u.fields, changed |-> DOMAIN c.data,
         unchanged |-> DOMAIN u.data,
         removed |-> DOMAIN c.data \ DOMAIN u.data]

\* _Fields.add_expander
AddExpanderAlways(expanders, expander) == Append(expanders, expander)
Fields_add_expander(expanders, expander) ==
    IF \E i \in 1..Len(expanders) : expanders[i] = expander
    THEN expanders
    ELSE Append(expanders, expander)

\* the callbacks handed to add_expander: the collection's own _get_data, two
\* that add a key to the dict they are given, one that returns no dict
Callbacks == {"_get_data", "ex1", "ex2", "bad"}
NotADict == None
Expander_call(callback, data) ==
    CASE callback = "ex1" ->
           [n \in DOMAIN data \cup {"k1"} |-> IF n = "k1" THEN PyInt(1) ELSE data[n]]
      [] callback = "ex2" ->
           [n \in DOMAIN data \cup {"k2"} |-> IF n = "k2" THEN PyInt(2) ELSE data[n]]
      [] OTHER -> NotADict

\* _Fields.full_data, from the ith callback on: st holds the fields, the dict
\* so far, the calls made (callback, the dict it received, what it returned)
\* and whether ValueError was raised
RECURSIVE full_data_from(_, _, _, _)
full_data_from(i, expanders, dt, st) ==
    IF i > Len(expanders) \/ st.error
    THEN st
    ELSE LET cb == expanders[i]
             g == Fields_get_data(st.fields, dt, st.data)
             result == IF cb = "_get_data" THEN g.data ELSE Expander_call(cb, st.data)
             isdict == result # NotADict
         IN  full_data_from(i + 1, expanders, dt,
                 [fields |-> IF cb = "_get_data" THEN g.fields ELSE st.fields,
                  data |-> IF isdict THEN result ELSE st.data,
                  calls |-> Append(st.calls,
                               [callback |-> cb, received |-> st.data, returned |-> result]),
                  error |-> ~isdict])

Fields_full_data(fs, dt, expanders) ==
    full_data_from(1, expanders, dt,
        [fields |-> fs, data |-> <<>>, calls |-> <<>>, error |-> FALSE])

\* _Fields.get_data(full)
Fields_get_data_full(fs, dt, expanders, full) ==
    IF full
    THEN Fields_full_data(fs, dt, expanders)
    ELSE LET g == Fields_get_data(fs, dt, <<>>)
         IN  [fields |-> g.fields, data |-> g.data, calls |-> <<>>, error |-> FALSE]

\* fs with f under name: dict.__setitem__
Fields_setitem(fs, name, f) ==
    [n \in DOMAIN fs \cup {name} |-> IF n = name THEN f ELSE fs[n]]

\* the reads of f raise in neither representation
Readable(f) == to_python(f) # Raise /\ to_graph(f) # Raise

(***************************************************************************)
(* Operations on the collection, shared by Spec, SpecColl and SpecExpand.  *)
(***************************************************************************)
\* fields.data_type = r
SetCollDataType(r) ==
    /\ coll' = [coll EXCEPT !.data_type = r]
    /\ out' = [op |-> "data_type", value |-> r]
    /\ hist' = [hist EXCEPT !.rep_set = TRUE]
    /\ UNCHANGED <<fields, ent, field, ret>>

\* fields.get_data(full)
GetData(full) ==
    LET r == Fields_get_data_full(fields, coll.data_type, coll.expanders, full)
    IN  /\ fields' = r.fields
        /\ out' = [op |-> "data", full |-> full, data |-> r.data,
                   calls |-> r.calls, error |-> r.error]
        /\ UNCHANGED <<coll, ent, hist, field, ret>>

\* fields.changed
ReadChanged ==
    LET r == Fields_changed(fields, coll.data_type)
    IN  /\ fields' = r.fields
        /\ out' = [op |-> "changed", data |-> r.data]
        /\ UNCHANGED <<coll, ent, hist, field, ret>>

\* fields.unchanged
ReadUnchanged ==
    LET r == Fields_unchanged(fields, coll.data_type)
    IN  /\ fields' = r.fields
        /\ out' = [op |-> "unchanged", data |-> r.data]
        /\ UNCHANGED <<coll, ent, hist, field, ret>>

\* fields.removed; pre is each field's data_type before the call
ReadRemoved ==
    LET r == Fields_removed(fields, coll.data_type)
    IN  /\ fields' = r.fields
        /\ out' = [op |-> "removed", changed |-> r.changed,
                   unchanged |-> r.unchanged, removed |-> r.removed,
                   pre |-> [n \in DOMAIN fields |-> fields[n].data_type]]
        /\ UNCHANGED <<coll, ent, hist, field, ret>>

(***************************************************************************)
(* Spec: one vertex entity and its collection.                             *)
(***************************************************************************)
\* utils.py: the names of the built-in fields and the immutable names
GIZMO_MODEL == "_gizmo_model"
GIZMO_CREATED == "_gizmo_created"
GIZMO_MODIFIED == "_gizmo_modified"
GIZMO_NODE_TYPE == "_gizmo_node_type"
GIZMO_ID == "_id"
IMMUTABLE_vertex == {GIZMO_ID}

\* the names item access is tried with: immutable, built-in, undefined
ItemNames == {GIZMO_ID, GIZMO_NODE_TYPE, "x"}
\* the values item assignment is tried with
ItemValues == {PyStr("abc"), PyDict(1)}

\* _BaseEntity.__init__(data=None, data_type) of a Vertex subclass
\* (allow_undefined False) or of GenericVertex (True)
Init ==
    /\ \E dt \in DataTypes, au \in BOOLEAN, t \in ClockValues :
         /\ fields =
              [n \in {GIZMO_MODEL, GIZMO_CREATED, GIZMO_MODIFIED,
                      GIZMO_NODE_TYPE, GIZMO_ID} |->
                 CASE n = GIZMO_MODEL ->
                        Field_init("String", 1, PyStr("module.Class"), dt, None, TRUE, <<>>, t)
                   [] n = GIZMO_CREATED ->
                        Field_init("DateTime", 2, Callable, dt, PyInt(1), TRUE, <<>>, t)
                   [] n = GIZMO_MODIFIED ->
                        Field_init("DateTime", 3, Callable, dt, None, TRUE, <<>>, t)
                   [] n = GIZMO_NODE_TYPE ->
                        Field_init("String", 4, PyStr("node_type"), dt, None, TRUE, <<>>, t)
                   [] n = GIZMO_ID ->
                        Field_init("String", 5, None, dt, None, TRUE, <<>>, t)]
         /\ ent = [data_type |-> "python", allow_undefined |-> au,
                   immutable |-> IMMUTABLE_vertex]
    /\ coll = [data_type |-> "python", expanders |-> <<"_get_data">>]
    /\ out = [op |-> "init"]
    /\ hist = [NoHist EXCEPT !.added = <<"_get_data">>]
    /\ field = NoField
    /\ ret = NoRet

\* _BaseEntity._add_undefined_field
add_undefined_field(fs, name, value, oid) ==
    LET type == CASE value.k = "dict" -> "Map"
                  [] value.k = "list" -> "List"
                  [] OTHER -> "String"
    IN  Fields_setitem(fs, name,
            Field_init(type, oid, value, ent.data_type, None, TRUE, <<>>, NoCall))

\* what _BaseEntity.__setitem__ leaves in the collection
Entity_setitem(fs, name, value, oid) ==
    IF name \notin ent.immutable /\ name \in DOMAIN fs
    THEN [fs EXCEPT ![name] = set_value(@, value, NoCall)]
    ELSE IF ent.allow_undefined
         THEN add_undefined_field(fs, name, value, oid)
         ELSE fs

\* entity[name] = value; prev is the field installed under name before
SetItem(name, value) ==
    LET stores == name \notin ent.immutable /\ name \in DOMAIN fields
        creates == ~stores /\ ent.allow_undefined
        new == Entity_setitem(fields, name, value, 6 + hist.news)
    IN  /\ stores => hist.sets < MaxItemSets
        /\ creates => hist.news < MaxNewFields
        /\ name \in DOMAIN new => Readable(new[name])
        /\ fields' = new
        /\ out' = [op |-> "setitem", name |-> name, value |-> value,
                   prev |-> IF name \in DOMAIN fields THEN fields[name] ELSE NoField]
        /\ hist' = [hist EXCEPT !.sets = IF stores THEN @ + 1 ELSE @,
                                !.news = IF creates THEN @ + 1 ELSE @]
        /\ UNCHANGED <<coll, ent, field, ret>>

\* entity[name]
GetItem(name) ==
    LET found == name \in DOMAIN fields
        creates == ~found /\ ent.allow_undefined
    IN  /\ creates => hist.news < MaxNewFields
        /\ fields' = IF creates
                     THEN add_undefined_field(fields, name, None, 6 + hist.news)
                     ELSE fields
        /\ out' = [op |-> "getitem", name |-> name, found |-> found,
                   value |-> IF found THEN get_value(fields[name]) ELSE None]
        /\ hist' = [hist EXCEPT !.news = IF creates THEN @ + 1 ELSE @]
        /\ UNCHANGED <<coll, ent, field, ret>>

\* entity.field_type = r
SetFieldType(r) ==
    /\ ent' = [ent EXCEPT !.data_type = r]
    /\ coll' = [coll EXCEPT !.data_type = r]
    /\ out' = [op |-> "field_type", value |-> r]
    /\ hist' = [hist EXCEPT !.rep_set = TRUE]
    /\ UNCHANGED <<fields, field, ret>>

Next ==
    \/ \E name \in ItemNames, value \in ItemValues : SetItem(name, value)
    \/ \E name \in ItemNames : GetItem(name)
    \/ \E r \in DataTypes : SetFieldType(r)
    \/ \E r \in DataTypes : SetCollDataType(r)
    \/ \E full \in BOOLEAN : GetData(full)
    \/ ReadChanged
    \/ ReadUnchanged
    \/ ReadRemoved

Spec == Init /\ [][Next]_vars

(***************************************************************************)
(* SpecColl: a collection built from two fields, _Fields({"a": String(...),*)
(* "b": Integer(...)}), then assigned to, added to and read.               *)
(***************************************************************************)
\* the values assigned to a field of the collection
CollValues(type) ==
    IF type = "String" THEN {None, PyStr("abc"), PyStr("xyz")} ELSE {PyInt(0), PyInt(5)}

InitColl ==
    /\ \E va \in {None, PyStr("abc")}, da \in DataTypes, db \in DataTypes,
          tc \in BOOLEAN :
         fields = [n \in {"a", "b"} |->
                     IF n = "a"
                     THEN Field_init("String", 1, va, da, None, TRUE, <<>>, NoCall)
                     ELSE Field_init("Integer", 2, PyInt(5), db, None, tc, <<>>, NoCall)]
    /\ coll = [data_type |-> "python", expanders |-> <<"_get_data">>]
    /\ ent = NoEnt
    /\ out = [op |-> "init"]
    /\ hist = [NoHist EXCEPT !.added = <<"_get_data">>]
    /\ field = NoField
    /\ ret = NoRet

\* fields[name].value = value
AssignItem(name, value) ==
    /\ name \in DOMAIN fields
    /\ hist.sets < MaxItemSets
    /\ value \in CollValues(fields[name].type)
    /\ fields' = [fields EXCEPT ![name] = set_value(@, value, NoCall)]
    /\ out' = [op |-> "assign", name |-> name, value |-> value]
    /\ hist' = [hist EXCEPT !.sets = @ + 1]
    /\ UNCHANGED <<coll, ent, field, ret>>

\* fields[name] = Integer(value, data_type=dt, track_changes=tc)
Install(name, value, dt, tc) ==
    /\ hist.news < MaxNewFields
    /\ fields' = Fields_setitem(fields, name,
                     Field_init("Integer", 3 + hist.news, value, dt, None, tc, <<>>, NoCall))
    /\ out' = [op |-> "install", name |-> name]
    /\ hist' = [hist EXCEPT !.news = @ + 1]
    /\ UNCHANGED <<coll, ent, field, ret>>

NextColl ==
    \/ \E name \in {"a", "b"}, value \in CollValues("String") \cup CollValues("Integer") :
          AssignItem(name, value)
    \/ \E value \in {None, PyInt(5)}, dt \in DataTypes, tc \in BOOLEAN :
          Install("n", value, dt, tc)
    \/ \E r \in DataTypes : SetCollDataType(r)
    \/ \E full \in BOOLEAN : GetData(full)
    \/ ReadChanged
    \/ ReadUnchanged
    \/ ReadRemoved

SpecColl == InitColl /\ [][NextColl]_vars

(***************************************************************************)
(* SpecExpand: the expander protocol of a collection of two fields.        *)
(***************************************************************************)
\* fields.add_expander(expander); hist.added lists every call's argument
AddExpander(expander) ==
    /\ Len(hist.added) <= MaxAddCalls
    /\ coll' = [coll EXCEPT !.expanders = Fields_add_expander(@, expander)]
    /\ out' = [op |-> "add_expander", value |-> expander]
    /\ hist' = [hist EXCEPT !.added = Append(@, expander)]
    /\ UNCHANGED <<fields, ent, field, ret>>

NextExpand ==
    \/ \E expander \in Callbacks : AddExpander(expander)
    \/ \E r \in DataTypes : SetCollDataType(r)
    \/ \E full \in BOOLEAN : GetData(full)

SpecExpand == InitColl /\ [][NextExpand]_vars

(***************************************************************************)
(* Claims about one Field (SpecField).  In ret, nth counts the assignment  *)
(* attempts made after construction, before / after are the value read     *)
(* around the operation, by_set says that changed() is true and that an    *)
(* accepted assignment made it so, and was is by_set before the operation. *)
(***************************************************************************)

\* C1: with set_max = n, the (n+1)th assignment attempt after construction and
\* every later one is a no-op: the value read after equals the value read before.
C1_SetMaxNoOp ==
    (ret.op = "set" /\ field.set_max # None /\ ret.nth > field.set_max.n)
        => ret.after = ret.before

\* an attempt past set_max that would have changed the value read
C1_Witness ==
    /\ ret.op = "set"
    /\ field.set_max = PyInt(1)
    /\ ret.nth = 2
    /\ ret.arg.k # "function"
    /\ ~PyEq(ret.arg, field.field_value)
    /\ field.type = "String"

\* C2: for an Enum without set_max, assigning a value outside allowed leaves the
\* value read unchanged and assigning a member makes the value read equal to it.
C2_EnumMembership ==
    (ret.op = "set" /\ field.type = "Enum" /\ field.set_max = None)
        => IF PyIn(ret.arg, field.allowed)
           THEN PyEq(ret.after, ret.arg)
           ELSE ret.after = ret.before

\* C3: with track_changes, changed() is true exactly when the stored raw value
\* differs from the initial value, and it is false right after construction.
C3_ChangedIffStoredDiffers ==
    field.track_changes =>
        /\ changed(field) <=> ~PyEq(field.field_value, field.initial_value)
        /\ ret.op = "init" => ~changed(field)

\* C4 as stated: once an accepted assignment has made changed() true, assigning
\* the initial raw value back leaves changed() true.
C4_ChangedStaysTrue ==
    (/\ ret.op = "set"
     /\ ret.was
     /\ ret.accepted
     /\ field.track_changes
     /\ ret.arg = field.initial_value)
        => changed(field)

\* the initial value is no producer and is read back as itself
InitialReadsBack(f) ==
    /\ f.initial_value.k # "function"
    /\ PyEq(f.initial_value, get_value([f EXCEPT !.field_value = f.initial_value]))

\* C4 as amended: an accepted assignment of the initial raw value resets
\* changed() to false whenever the initial value is read back as itself.
C4_AssignInitialResets ==
    (/\ ret.op = "set"
     /\ ret.accepted
     /\ field.track_changes
     /\ ret.arg = field.initial_value
     /\ InitialReadsBack(field))
        => ~changed(field)

\* changed() was true by an accepted assignment and the initial value came back
C4_Witness ==
    /\ ret.op = "set"
    /\ ret.was
    /\ ret.accepted
    /\ field.track_changes
    /\ ret.arg = field.initial_value
    /\ InitialReadsBack(field)
    /\ ~changed(field)

\* the default each type documents
DocumentedDefault(type) ==
    CASE type = "String" -> PyStr("")
      [] type = "Integer" -> PyInt(0)
      [] type = "Float" -> PyInt(0)
      [] type = "Boolean" -> PyBool(FALSE)
      [] type = "Map" -> PyDict(0)
      [] type = "List" -> PyList(0)

\* C7: the native value read right after construction without an initial value
\* is the type's documented default.
C7_DefaultValues ==
    (/\ ret.op = "init"
     /\ ret.arg = None
     /\ field.data_type = "python"
     /\ field.type \in {"String", "Integer", "Float", "Boolean", "Map", "List"})
        => PyEq(ret.after, DocumentedDefault(field.type))

(***************************************************************************)
(* Claims about the entity and its collection (Spec, SpecColl, SpecExpand).*)
(* hist.rep_set says that the collection's data_type was assigned, and     *)
(* hist.added lists the argument of every add_expander call.               *)
(***************************************************************************)

\* C5: once the collection's representation was set to r, a value read through
\* the entity's item access returns the value in representation r.
C5_ReadsFollowRepresentation ==
    (hist.rep_set /\ out.op = "getitem" /\ out.found)
        => out.value = get_value(Synced(fields[out.name], coll.data_type))

\* C6 as stated: the removed view is empty in every state of a collection.
C6_RemovedEmpty == out.op = "removed" => out.removed = {}

\* C6 as amended: the removed view holds exactly the tracked fields whose
\* changed() is true both under the representation the field had before the
\* read and under the collection's.
C6_RemovedIsChangedInBoth ==
    out.op = "removed" =>
        out.removed =
            {n \in DOMAIN fields :
                /\ fields[n].track_changes
                /\ changed(Synced(fields[n], out.pre[n]))
                /\ changed(Synced(fields[n], coll.data_type))}

\* removed read after an assignment and an install, a name left in it
C6_Witness ==
    /\ out.op = "removed"
    /\ out.removed # {}
    /\ hist.sets > 0
    /\ hist.news > 0

\* the first occurrences of seq, in order
RECURSIVE Dedup(_)
Dedup(seq) ==
    IF seq = <<>> THEN <<>>
    ELSE LET front == Dedup(SubSeq(seq, 1, Len(seq) - 1))
             last == seq[Len(seq)]
         IN  IF \E i \in 1..Len(front) : front[i] = last
             THEN front
             ELSE Append(front, last)

\* the callbacks one full read called, in order
Called == [i \in 1..Len(out.calls) |-> out.calls[i].callback]

\* each call received what the call before it returned
Chained ==
    \A i \in 2..Len(out.calls) : out.calls[i].received = out.calls[i - 1].returned

\* C8 as stated: one full read calls each distinct registered callback once, the
\* built-in one first and the others in the order of their first registration,
\* each receiving the mapping the previous one returned.
C8_EachCallbackOnce ==
    (out.op = "data" /\ out.full) =>
        /\ Called = Dedup(hist.added)
        /\ Called[1] = "_get_data"
        /\ Chained

\* seq up to and including its first callback that returns no dict
RECURSIVE UpToNonDict(_)
UpToNonDict(seq) ==
    IF seq = <<>> THEN <<>>
    ELSE IF seq[1] # "_get_data" /\ Expander_call(seq[1], <<>>) = NotADict
         THEN <<seq[1]>>
         ELSE <<seq[1]>> \o UpToNonDict(Tail(seq))

\* C8 as amended: the distinct registered callbacks are called once each in that
\* order up to and including the first that returns no mapping, where the read
\* fails; when each returns a mapping all of them are called.
C8_CallbacksUntilNonDict ==
    (out.op = "data" /\ out.full) =>
        /\ Called = UpToNonDict(Dedup(hist.added))
        /\ Called[1] = "_get_data"
        /\ Chained
        /\ out.error <=> out.calls[Len(out.calls)].returned = NotADict

\* a full read after a callback was registered twice, three callbacks called
C8_Witness ==
    /\ out.op = "data"
    /\ out.full
    /\ ~out.error
    /\ Len(out.calls) = 3
    /\ Len(hist.added) > Len(coll.expanders)

\* C9: an item assignment under an immutable name leaves the collection's entry
\* as it was: the same field object with the same value.
C9_ImmutableItemKept ==
    (out.op = "setitem" /\ out.name \in ent.immutable /\ out.prev # NoField)
        => fields[out.name] = out.prev

\* C10: changed and unchanged, read one after the other, hold each tracked field
\* in exactly one of the two and no untracked field.
C10_ViewsPartition ==
    out.op = "removed" =>
        \A n \in DOMAIN fields :
            IF fields[n].track_changes
            THEN (n \in out.changed) # (n \in out.unchanged)
            ELSE n \notin out.changed \cup out.unchanged

====
